---- MODULE Spec2Model ----
(***************************************************************************)
(* Model of i19.screen (src/command_line/screen.py): the orchestrator      *)
(* run() and the stage functions of class i19_screen.  Every external      *)
(* tool invocation (run_process) is one step of the state machine; the     *)
(* tool's exit code, and where the code reads them its standard output     *)
(* and output files, are inputs chosen by the environment.                 *)
(*                                                                         *)
(* A tool that exits 0 is taken to have written the output files the next  *)
(* stage reads (strong.pickle, experiments.json, overload.json, ...), as   *)
(* the code itself assumes; the one file the code checks for,              *)
(* datablock.json, may be absent after a successful dials.import.          *)
(***************************************************************************)
EXTENDS Integers, Sequences, FiniteSets, TLC

VARIABLES
  args,       \* shape of sys.argv[1:]: "none", "json" or "paths"
  pc,         \* position of run(): the stage about to be invoked, or "exited"
  exitcode,   \* process exit code; -1 while the process runs
  stopped,    \* how the process ended: the function that called sys.exit,
              \* "return" for run() returning, the exception for a fault
  calls,      \* every run_process invocation so far, in order, with its exit code
  files,      \* files of the working directory that the code renames or tests
  nproc,      \* self.nproc has been set
  round,      \* 1 in the first spot-finding/indexing pass of run(), 2 in the retry
  idx,        \* position in _index's runlist (1..3)
  attempt,    \* 1 for the first _create_profile_model call of run(), 2 for the retry
  meta,       \* scan metadata of the session: whether self._num_images, self._oscillation
              \* and self._sigma_m are set, and if so the image count and the mosaicity
              \* factor that lines 87-88 compute from the other two
  overload,   \* overload_data of _check_intensities (overload.json), or "unset"
  hist,       \* local hist of _check_intensities
  histcount,  \* local histcount of _check_intensities
  plot,       \* the plot lines _plot_intensities has logged, in order
  stdout,     \* the lines of gnuplot's output that _plot_intensities went through
  log         \* the notable messages logged so far (a set)

vars == <<args, pc, exitcode, stopped, calls, files, nproc, round, idx, attempt,
          meta, overload, hist, histcount, plot, stdout, log>>

----------------------------------------------------------------------------
(* Bounds of the model *)

\* number of bins of overload.json (bin_count)
MaxBins == 4
\* largest count held by one bin
MaxCount == 1
\* largest number of images of the scan
MaxImages == 2

----------------------------------------------------------------------------
(* Inputs chosen by the environment *)

\* exit codes a tool can report
ExitCodes == {0, 1}

ArgKinds == {"none", "json", "paths"}

\* scale_factor of overload.json and the mosaicity factor of lines 87-88,
\* as fractions <<numerator, denominator>>
ScaleFactors == {<<1, 100>>, <<3, 100>>, <<1, 1>>}
Mosaicities == {<<2, 1>>}

\* the bins array of overload.json
BinArrays == [1..MaxBins -> 0..MaxCount]

\* characters of a line of gnuplot's output, and the outputs (already split
\* into lines) the model lets gnuplot produce
PlotChars == {" ", "*", "+"}
PlotOutputs ==
  { <<>>,
    << <<" ", "*">>, <<"*", " ">> >>,
    << <<" ", "*">>, <<"*">> >>,
    << <<" ", " ", " ", "*", " ", " ", " ", "*">>,
       <<" ", " ", " ", " ", " ", " ", " ", " ">>,
       <<" ", " ", " ", " ", " ", "*", " ", " ">> >>,
    << <<" ", " ", " ", "*", " ", " ", " ", "*">>,
       <<"+", " ", " ", " ", " ", " ", " ", " ">>,
       <<" ", " ", " ", " ", " ", "*", " ", " ">> >> }

----------------------------------------------------------------------------
(* Bookkeeping of invocations *)

Call(cmd, opt, ec) == [cmd |-> cmd, opt |-> opt, ec |-> ec]

CallsOf(cmd) == {i \in 1..Len(calls) : calls[i].cmd = cmd}

Invoked(cmd) == CallsOf(cmd) # {}

Cmds == [i \in 1..Len(calls) |-> calls[i].cmd]

----------------------------------------------------------------------------
(* How the process ends, and how run() moves on *)

\* sys.exit(1) in the function `site`
SysExit(site) == pc' = "exited" /\ exitcode' = 1 /\ stopped' = site

\* an exception nobody catches: the interpreter prints the traceback and
\* the process ends with status 1
Fault(exc) == pc' = "exited" /\ exitcode' = 1 /\ stopped' = exc

\* run() returns and the script ends: status 0
Return == pc' = "exited" /\ exitcode' = 0 /\ stopped' = "return"

Goto(p) == pc' = p /\ UNCHANGED <<exitcode, stopped>>

\* os.rename(src, dst)
Rename(fs, src, dst) == (fs \ {src}) \cup {dst}

----------------------------------------------------------------------------
(* Construction: i19_screen().run(sys.argv[1:]) *)

Init ==
  /\ args \in ArgKinds
  /\ pc = "run"
  /\ exitcode = -1
  /\ stopped = "no"
  /\ calls = <<>>
  /\ files = {}
  /\ nproc = FALSE
  /\ round = 1
  /\ idx = 1
  /\ attempt = 1
  /\ meta = [populated |-> FALSE]
  /\ overload = "unset"
  /\ hist = <<>>
  /\ histcount = 0
  /\ plot = <<>>
  /\ stdout = <<>>
  /\ log = {}

\* run(), lines 303-306: without arguments the help text is shown and run() returns
Help ==
  /\ pc = "run"
  /\ args = "none"
  /\ Return
  /\ log' = log \cup {"help"}
  /\ UNCHANGED <<args, calls, files, nproc, round, idx, attempt, meta, overload, hist,
                 histcount, plot, stdout>>

\* run(), lines 316-320: the stage after the processor probe
AfterProbe(a) == IF a = "json" THEN "find_spots" ELSE "import"

\* _count_processors, called at line 314
CountProcessors ==
  /\ pc = "run"
  /\ args # "none"
  /\ \E ec \in ExitCodes :
       /\ calls' = Append(calls, Call("libtbx.show_number_of_processors", "", ec))
       /\ IF ec = 0
            THEN nproc' = TRUE /\ Goto(AfterProbe(args))
            ELSE nproc' = nproc /\ SysExit("_count_processors")
  /\ UNCHANGED <<args, files, round, idx, attempt, meta, overload, hist, histcount, plot, stdout, log>>

\* _import, called at line 319; `sidecar`: dials.import wrote datablock.json
Import ==
  /\ pc = "import"
  /\ \E ec \in ExitCodes, sidecar \in BOOLEAN :
       /\ calls' = Append(calls, Call("dials.import", "", ec))
       /\ files' = IF ec = 0 /\ sidecar THEN files \cup {"datablock.json"} ELSE files
       /\ IF ec = 0 /\ "datablock.json" \in files'
            THEN Goto("find_spots")
            ELSE SysExit("_import")
  /\ UNCHANGED <<args, nproc, round, idx, attempt, meta, overload, hist, histcount, plot, stdout, log>>

\* FindSpotsParameters with the stricter threshold forgotten in the retry
FindSpotsParameters_same(rnd) == ""

\* the additional_parameters run() passes to _find_spots (lines 322, 326)
FindSpotsParameters(rnd) == IF rnd = 1 THEN "" ELSE "sigma_strong=15"

\* _find_spots, called at lines 322 and 326
FindSpots ==
  /\ pc = "find_spots"
  /\ \E ec \in ExitCodes :
       /\ calls' = Append(calls, Call("dials.find_spots", FindSpotsParameters(round), ec))
       /\ IF ec = 0
            THEN /\ files' = files \cup {"strong.pickle"}
                 /\ Goto("index")
            ELSE /\ files' = files
                 /\ SysExit("_find_spots")
  /\ idx' = 1
  /\ UNCHANGED <<args, nproc, round, attempt, meta, overload, hist, histcount, plot, stdout, log>>

----------------------------------------------------------------------------
(* Indexing: _index and the escalation of run(), lines 323-339 *)

\* runlist with the two retries in the other order
runlist_swapped == <<"", "indexing.method=fft1d", "max_cell=20">>

\* the options the three commands of runlist add to base_command (lines 189-196)
runlist == <<"", "max_cell=20", "indexing.method=fft1d">>
\* IndexStep without the break of line 206: the loop goes on to the next
\* entry of runlist after a successful invocation
IndexStep_nobreak(i, ec, match) ==
  IF i < Len(runlist) THEN "continue"
  ELSE IF ec # 0 THEN "False"
  ELSE IF match THEN "True" ELSE "fault"

\* One pass of the loop of _index (lines 198-214) for entry i of runlist, the
\* tool exiting with ec: "continue" with the next entry, or _index is over:
\* it returns "False" or "True", or faults where the pattern of line 211 does
\* not match the tool's output (m is None at line 212).
IndexStep(i, ec, match) ==
  IF ec # 0
    THEN IF i < Len(runlist) THEN "continue" ELSE "False"
    ELSE IF match THEN "True" ELSE "fault"
\* AfterIndex where every failed pass, not only the first, is answered with
\* another spot finding
AfterIndex_again(ok, rnd) == IF ok THEN "create_profile_model" ELSE "find_spots"

\* AfterIndex without the sys.exit(1) of line 339: run() falls through to
\* the profile model
AfterIndex_fallthrough(ok, rnd) ==
  IF ok THEN "create_profile_model"
  ELSE IF rnd = 1 THEN "find_spots" ELSE "create_profile_model"

\* What run() does with the value _index returned, in pass rnd (lines 323-339)
AfterIndex(ok, rnd) ==
  IF ok THEN "create_profile_model"
  ELSE IF rnd = 1 THEN "find_spots" ELSE "giveup"

\* One invocation of dials.index by _index, and what follows when _index is over
Index ==
  /\ pc = "index"
  /\ \E ec \in ExitCodes, match \in BOOLEAN :
       LET step == IndexStep(idx, ec, match)
           next == IF step \in {"True", "False"}
                     THEN AfterIndex(step = "True", round)
                     ELSE step
       IN  /\ calls' = Append(calls, Call("dials.index", runlist[idx], ec))
           /\ idx' = IF next = "continue" THEN idx + 1 ELSE idx
           /\ round' = IF next = "find_spots" THEN 2 ELSE round
           /\ files' = LET written == IF ec = 0
                                        THEN files \cup {"experiments.json", "indexed.pickle"}
                                        ELSE files
                       IN  IF next = "find_spots"
                             THEN Rename(written, "strong.pickle", "all_spots.pickle")
                             ELSE written
           /\ log' = IF next = "giveup" THEN log \cup {"guidance_indexing"} ELSE log
           /\ CASE next = "continue" -> Goto("index")
                [] next = "find_spots" -> Goto("find_spots")
                [] next = "create_profile_model" -> Goto("create_profile_model")
                [] next = "giveup" -> SysExit("run_indexing")
                [] next = "fault" -> Fault("AttributeError")
  /\ UNCHANGED <<args, nproc, attempt, meta, overload, hist, histcount, plot, stdout>>

----------------------------------------------------------------------------
(* Profile model: _create_profile_model, _refine and run(), lines 341-352 *)

\* AfterProfileModel giving up at once, without the refinement
AfterProfileModel_norefine(ok, att) == IF ok THEN "report" ELSE "giveup"

\* AfterProfileModel without the sys.exit(1) of line 352: run() falls through
\* to the report
AfterProfileModel_fallthrough(ok, att) ==
  IF ok THEN "report"
  ELSE IF att = 1 THEN "refine" ELSE "report"

\* What run() does with the value _create_profile_model returned, in its
\* first (att = 1) or second call (lines 341-352)
AfterProfileModel(ok, att) ==
  IF ok THEN "report"
  ELSE IF att = 1 THEN "refine" ELSE "giveup"

\* _create_profile_model; n and m: what it reads back from
\* experiments_with_profile_model.json (lines 253-256)
CreateProfileModel ==
  /\ pc = "create_profile_model"
  /\ \E ec \in ExitCodes, n \in 1..MaxImages, m \in Mosaicities :
       LET next == AfterProfileModel(ec = 0, attempt)
       IN  /\ calls' = Append(calls, Call("dials.create_profile_model", "", ec))
           /\ meta' = IF ec = 0 THEN [populated |-> TRUE, num_images |-> n, mosaicity |-> m] ELSE meta
           /\ files' = IF ec = 0
                         THEN files \cup {"experiments_with_profile_model.json"}
                         ELSE files
           /\ log' = IF next = "giveup" THEN log \cup {"guidance_profile"} ELSE log
           /\ IF next = "giveup" THEN SysExit("run_profile") ELSE Goto(next)
  /\ UNCHANGED <<args, nproc, round, idx, attempt, overload, hist, histcount, plot, stdout>>

\* the four renames of lines 227-230
PromoteRefined(fs) ==
  Rename(Rename(Rename(Rename(fs,
    "experiments.json", "experiments.unrefined.json"),
    "indexed.pickle", "indexed.unrefined.pickle"),
    "refined_experiments.json", "experiments.json"),
    "refined.pickle", "indexed.pickle")

\* _refine, called at line 343; run() then calls _create_profile_model again
Refine ==
  /\ pc = "refine"
  /\ \E ec \in ExitCodes :
       /\ calls' = Append(calls, Call("dials.refine", "", ec))
       /\ IF ec = 0
            THEN /\ files' = PromoteRefined(files \cup {"refined_experiments.json",
                                                         "refined.pickle"})
                 /\ attempt' = 2
                 /\ Goto("create_profile_model")
            ELSE /\ files' = files
                 /\ attempt' = attempt
                 /\ SysExit("_refine")
  /\ UNCHANGED <<args, nproc, round, idx, meta, overload, hist, histcount, plot, stdout, log>>

----------------------------------------------------------------------------
(* Report and predict: lines 353-354 *)

\* _report without the sys.exit(1) of line 296
Report_nonfatal ==
  /\ pc = "report"
  /\ \E ec \in ExitCodes :
       /\ calls' = Append(calls, Call("dials.report", "", ec))
       /\ Goto("predict")
  /\ UNCHANGED <<args, files, nproc, round, idx, attempt, meta, overload, hist, histcount,
                 plot, stdout, log>>

\* _report: a nonzero exit code ends the process (lines 294-296)
Report ==
  /\ pc = "report"
  /\ \E ec \in ExitCodes :
       /\ calls' = Append(calls, Call("dials.report", "", ec))
       /\ IF ec = 0 THEN Goto("predict") ELSE SysExit("_report")
  /\ UNCHANGED <<args, files, nproc, round, idx, attempt, meta, overload, hist, histcount,
                 plot, stdout, log>>

\* _predict ending the process on a nonzero exit code, as _report does
Predict_fatal ==
  /\ pc = "predict"
  /\ \E ec \in ExitCodes :
       /\ calls' = Append(calls, Call("dials.predict", "", ec))
       /\ IF ec = 0 THEN Goto("check_intensities") ELSE SysExit("_predict")
  /\ UNCHANGED <<args, files, nproc, round, idx, attempt, meta, overload, hist, histcount,
                 plot, stdout, log>>

\* _predict returns True or False; run() ignores the value (line 354)
Predict ==
  /\ pc = "predict"
  /\ \E ec \in ExitCodes :
       /\ calls' = Append(calls, Call("dials.predict", "", ec))
       /\ Goto("check_intensities")
  /\ UNCHANGED <<args, files, nproc, round, idx, attempt, meta, overload, hist, histcount,
                 plot, stdout, log>>

----------------------------------------------------------------------------
(* Intensity check: _check_intensities and _plot_intensities, line 355 *)

\* lines 77-80: the buckets of overload.json that hold a count
BuildHist(bins) ==
  [b \in {c \in 0..(Len(bins) - 1) : bins[c + 1] > 0} |-> bins[b + 1]]

\* sum(hist.itervalues()), line 83
RECURSIVE SumValues(_)
SumValues(h) ==
  IF DOMAIN h = {} THEN 0
  ELSE LET k == CHOOSE x \in DOMAIN h : TRUE
       IN  h[k] + SumValues([x \in DOMAIN h \ {k} |-> h[x]])

\* line 91: scale = 100 * scale_factor / mosaicity_factor, as a fraction
Scale(sf, mf) == <<100 * sf[1] * mf[2], sf[2] * mf[1]>>

\* int() of the fraction n/d: truncation towards zero
IntTrunc(n, d) == IF n >= 0 THEN n \div d ELSE -((-n) \div d)

\* line 97: rescaled = int(x * scale)
Rescaled(x, scale) == IntTrunc(x * scale[1], scale[2])

\* Accumulate that always assigns, as if line 101 stood alone
Accumulate_overwrite(acc, r, v) ==
  [k \in DOMAIN acc \cup {r} |-> IF k = r THEN v ELSE acc[k]]

\* lines 98-101: add v to bucket r, creating the bucket when it is missing
Accumulate(acc, r, v) ==
  IF r \in DOMAIN acc
    THEN [acc EXCEPT ![r] = @ + v]
    ELSE [k \in DOMAIN acc \cup {r} |-> IF k = r THEN v ELSE acc[k]]

\* lines 94-101: the loop over hist.iterkeys(), keys being those left to visit
RECURSIVE RescaleLoop(_, _, _, _)
RescaleLoop(h, keys, scale, acc) ==
  IF keys = {} THEN acc
  ELSE LET x == CHOOSE k \in keys : TRUE
       IN  RescaleLoop(h, keys \ {x}, scale, Accumulate(acc, Rescaled(x, scale), h[x]))

RescaleHist(h, scale) == RescaleLoop(h, DOMAIN h, scale, <<>>)

\* DropZero that leaves the histogram as it is
DropZero_keep(h) == h

\* line 104: del hist[0], for a hist that has the key
DropZero(h) == [k \in DOMAIN h \ {0} |-> h[k]]

\* max(hist.iterkeys()), line 108, of a histogram that is not empty
MaxKey(h) == CHOOSE k \in DOMAIN h : \A j \in DOMAIN h : j <= k

\* the limit of line 110
SaturationLimit == 100
\* CheckIntensities without the sys.exit(1) of line 70: a failed
\* xia2.overload is passed over and run() goes on with the Bravais settings
CheckIntensities_nonfatal ==
  /\ pc = "check_intensities"
  /\ \E ec \in ExitCodes, bins \in BinArrays, sf \in ScaleFactors :
       /\ calls' = Append(calls, Call("xia2.overload", "", ec))
       /\ IF ec # 0
            THEN /\ Goto("refine_bravais")
                 /\ UNCHANGED <<overload, hist, histcount>>
            ELSE /\ overload' = [bins |-> bins, scale_factor |-> sf]
                 /\ hist' = BuildHist(bins)
                 /\ histcount' = SumValues(BuildHist(bins))
                 /\ Goto("rescale")
  /\ UNCHANGED <<args, files, nproc, round, idx, attempt, meta, plot, stdout, log>>

\* lines 62-83: xia2.overload is run and overload.json loaded
CheckIntensities ==
  /\ pc = "check_intensities"
  /\ \E ec \in ExitCodes, bins \in BinArrays, sf \in ScaleFactors :
       /\ calls' = Append(calls, Call("xia2.overload", "", ec))
       /\ IF ec # 0
            THEN /\ SysExit("_check_intensities")
                 /\ UNCHANGED <<overload, hist, histcount>>
            ELSE /\ overload' = [bins |-> bins, scale_factor |-> sf]
                 /\ hist' = BuildHist(bins)
                 /\ histcount' = SumValues(BuildHist(bins))
                 /\ Goto("rescale")
  /\ UNCHANGED <<args, files, nproc, round, idx, attempt, meta, plot, stdout, log>>

\* lines 87-102: the scale is computed and the histogram rescaled
RescaleStep ==
  /\ pc = "rescale"
  /\ IF ~meta.populated
       THEN Fault("AttributeError") /\ hist' = hist
       ELSE /\ hist' = RescaleHist(hist, Scale(overload.scale_factor, meta.mosaicity))
            /\ Goto("drop_zero")
  /\ UNCHANGED <<args, calls, files, nproc, round, idx, attempt, meta, overload,
                 histcount, plot, stdout, log>>

\* line 104: del hist[0] raises KeyError when no bucket was rescaled to 0
DropZeroStep ==
  /\ pc = "drop_zero"
  /\ IF 0 \in DOMAIN hist
       THEN hist' = DropZero(hist) /\ Goto("plot_intensities")
       ELSE hist' = hist /\ Fault("KeyError")
  /\ UNCHANGED <<args, calls, files, nproc, round, idx, attempt, meta, overload,
                 histcount, plot, stdout, log>>

\* line 159: the columns (counted from 0) of the markers of line l
Stars(l) == {c \in 0..(Len(l) - 1) : l[c + 1] = "*"}

\* line 158: l.strip() == ''
IsBlank(l) == \A c \in 1..Len(l) : l[c] = " "

\* lines 156-166: the loop over the lines of gnuplot's output from line i on,
\* state being the tracked columns and out the lines logged so far; l[s] = '*'
\* raises IndexError for a tracked column beyond the end of the line
RECURSIVE FillBars(_, _, _, _)
FillBars(lines, i, state, out) ==
  IF i > Len(lines) THEN [fault |-> FALSE, out |-> out]
  ELSE LET l == lines[i] IN
    IF IsBlank(l) THEN FillBars(lines, i + 1, state, out)
    ELSE IF Stars(l) = {} THEN FillBars(lines, i + 1, {}, Append(out, l))
    ELSE LET st == state \cup Stars(l) IN
      IF \E s \in st : s >= Len(l) THEN [fault |-> TRUE, out |-> out]
      ELSE FillBars(lines, i + 1, st,
             Append(out, [c \in 1..Len(l) |-> IF (c - 1) \in st THEN "*" ELSE l[c]]))
\* IntensityMessages with the comparison of line 110 taken as >=
IntensityMessages_ge(h, count, images) ==
  (IF MaxKey(h) >= SaturationLimit THEN {"saturation_warning"} ELSE {"strongest_pixel"})
  \cup (IF count % images # 0 THEN {"overload_warning"} ELSE {})

\* lines 108-116: the messages the checks after the plot log
IntensityMessages(h, count, images) ==
  (IF MaxKey(h) > SaturationLimit THEN {"saturation_warning"} ELSE {"strongest_pixel"})
  \cup (IF count % images # 0 THEN {"overload_warning"} ELSE {})

\* lines 124-129: with a terminal on standard output its size is asked of
\* `stty size`, and whatever goes wrong there is ignored
TerminalProbe(cs, tty, ec) == IF tty THEN Append(cs, Call("stty", "size", ec)) ELSE cs

\* lines 106-120: _plot_intensities runs gnuplot and logs the plot, then the
\* strongest bucket and the divisibility of the pixel count are checked
PlotIntensities ==
  /\ pc = "plot_intensities"
  /\ \E tty \in BOOLEAN, ec \in ExitCodes :
     \E sec \in IF tty THEN ExitCodes ELSE {0}, out \in IF ec = 0 THEN PlotOutputs ELSE {<<>>} :
       LET filled == FillBars(out, 1, {}, <<>>)
           plotlog == IF ec = 0 THEN {} ELSE {"gnuplot_error"}
       IN  /\ calls' = Append(TerminalProbe(calls, tty, sec), Call("gnuplot", "", ec))
           /\ stdout' = IF ec = 0 THEN out ELSE stdout
           /\ plot' = IF ec = 0 THEN filled.out ELSE plot
           /\ IF ec = 0 /\ filled.fault
                THEN log' = log /\ Fault("IndexError")
                ELSE IF DOMAIN hist = {}
                  THEN log' = log \cup plotlog /\ Fault("ValueError")
                  ELSE /\ log' = log \cup plotlog
                                  \cup IntensityMessages(hist, histcount, meta.num_images)
                       /\ Goto("refine_bravais")
  /\ overload' = "unset"
  /\ hist' = <<>>
  /\ histcount' = 0
  /\ UNCHANGED <<args, files, nproc, round, idx, attempt, meta>>

----------------------------------------------------------------------------
(* Bravais settings: _refine_bravais, line 356, after which run() returns *)

\* match: the pattern of line 270 is found in the tool's output
RefineBravais ==
  /\ pc = "refine_bravais"
  /\ \E ec \in ExitCodes, match \in BOOLEAN :
       /\ calls' = Append(calls, Call("dials.refine_bravais_settings", "", ec))
       /\ IF ec # 0 THEN SysExit("_refine_bravais")
          ELSE IF match THEN Return
          ELSE Fault("AttributeError")
  /\ UNCHANGED <<args, files, nproc, round, idx, attempt, meta, overload, hist,
                 histcount, plot, stdout, log>>

----------------------------------------------------------------------------

Next ==
  \/ Help
  \/ CountProcessors
  \/ Import
  \/ FindSpots
  \/ Index
  \/ CreateProfileModel
  \/ Refine
  \/ Report
  \/ Predict
  \/ CheckIntensities
  \/ RescaleStep
  \/ DropZeroStep
  \/ PlotIntensities
  \/ RefineBravais

Spec == Init /\ [][Next]_vars

\* run() is a sequential program: while it has not ended and its tools return,
\* it takes its next step
FairSpec == Spec /\ WF_vars(Next)

----------------------------------------------------------------------------
(* Vocabulary of the properties *)

Last == Len(calls)

Failed(i) == calls[i].ec # 0

\* the indexing stage (1: first pass, 2: after the stricter spot finding) that
\* the invocation at position i belongs to
IndexStage(i) == Cardinality({j \in CallsOf("dials.find_spots") : j < i})

\* the failed dials.index invocations of indexing stage r
FailedIndexing(r) ==
  {i \in CallsOf("dials.index") : IndexStage(i) = r /\ Failed(i)}

\* indexing stage r returned failure: its three invocations all failed
StageFailed(r) == Cardinality(FailedIndexing(r)) = 3

\* the positions of the first and the second dials.create_profile_model
FirstProfileModel == {i \in CallsOf("dials.create_profile_model") :
                        \A j \in CallsOf("dials.create_profile_model") : i <= j}
SecondProfileModel == CallsOf("dials.create_profile_model") \ FirstProfileModel

----------------------------------------------------------------------------
(* C1 *)

\* C1: within one indexing stage dials.index is invoked with the default
\* options first, then with max_cell=20, then with indexing.method=fft1d;
\* an invocation follows another only when that one exited nonzero; nothing
\* follows the fft1d invocation inside the stage, and when it fails too the
\* stage has returned failure: run() is back at spot finding or has given up.
C1_IndexOrder ==
  \A i \in CallsOf("dials.index") :
    /\ IF calls[i - 1].cmd # "dials.index"
         THEN calls[i].opt = ""
         ELSE /\ Failed(i - 1)
              /\ \/ calls[i - 1].opt = "" /\ calls[i].opt = "max_cell=20"
                 \/ calls[i - 1].opt = "max_cell=20"
                      /\ calls[i].opt = "indexing.method=fft1d"
    /\ (calls[i].opt = "indexing.method=fft1d" /\ Failed(i)) =>
         IF i < Last
           THEN calls[i + 1].cmd = "dials.find_spots"
           ELSE \/ pc = "find_spots" /\ round = 2
                \/ pc = "exited" /\ stopped = "run_indexing"
    /\ (~Failed(i) /\ i < Last) => calls[i + 1].cmd # "dials.index"

\* three failed invocations in the first stage, and run() back at spot finding
C1_Witness ==
  /\ StageFailed(1)
  /\ Last \in CallsOf("dials.index")
  /\ calls[Last].opt = "indexing.method=fft1d"
  /\ pc = "find_spots"

----------------------------------------------------------------------------
(* C2 *)

\* C2 as stated: once the three attempts of an indexing stage have failed,
\* profile-model creation is never attempted and the run ends with the
\* guidance block and exit code 1.
C2_AsStated ==
  StageFailed(1) =>
    /\ ~Invoked("dials.create_profile_model")
    /\ pc = "exited" => (exitcode = 1 /\ "guidance_indexing" \in log)

\* C2, amended: when the three attempts fail in both indexing stages (before
\* and after the spot finding with sigma_strong=15) the run has printed the
\* guidance block and exited with code 1 without attempting the profile
\* model; the guidance block is printed in no other case.
C2_GiveUpAfterBothStages ==
  /\ StageFailed(2) =>
       /\ StageFailed(1)
       /\ pc = "exited" /\ exitcode = 1 /\ stopped = "run_indexing"
       /\ "guidance_indexing" \in log
       /\ ~Invoked("dials.create_profile_model")
  /\ "guidance_indexing" \in log => StageFailed(2)

\* six failed dials.index invocations and the process over
C2_Witness ==
  /\ StageFailed(1) /\ StageFailed(2)
  /\ Cardinality(CallsOf("dials.index")) = 6
  /\ pc = "exited"

----------------------------------------------------------------------------
(* C3 *)

\* what C3 says of a run in which the second indexing stage failed as well
C3_SecondFailure ==
  StageFailed(2) =>
    /\ pc = "exited" /\ exitcode = 1
    /\ ~Invoked("dials.create_profile_model")
    /\ "all_spots.pickle" \in files

\* what C3 says of the rename and of the second spot finding
C3_Retry ==
  /\ Cardinality(CallsOf("dials.find_spots")) <= 2
  /\ \A i \in CallsOf("dials.find_spots") :
       /\ calls[i].opt = (IF IndexStage(i) = 0 THEN "" ELSE "sigma_strong=15")
       /\ IndexStage(i) = 1 => StageFailed(1)
  /\ StageFailed(1) =>
       /\ "all_spots.pickle" \in files
       /\ pc # "find_spots" => Cardinality(CallsOf("dials.find_spots")) = 2
  /\ ~StageFailed(1) => "all_spots.pickle" \notin files

\* the indexing stage has been rerun: dials.index was invoked after the
\* second spot finding
IndexingRerun == \E i \in CallsOf("dials.index") : IndexStage(i) = 2

\* C3 as stated: after a failure of the first indexing stage the run does
\* not end without the indexing stage having been rerun.
C3_AsStated ==
  /\ C3_Retry
  /\ (StageFailed(1) /\ pc = "exited") => IndexingRerun
  /\ C3_SecondFailure

\* C3, amended: after a failure of the first indexing stage strong.pickle is
\* renamed to all_spots.pickle and spot finding is rerun exactly once, with
\* sigma_strong=15; if that spot finding exits 0 the indexing stage is rerun
\* exactly once more, and if it exits nonzero the run exits 1 with no further
\* indexing; if the second indexing stage fails too the run exits 1, the
\* profile model is never invoked and all_spots.pickle keeps its name.
C3_Escalation ==
  /\ C3_Retry
  /\ \A i \in CallsOf("dials.find_spots") :
       IndexStage(i) = 1 =>
         IF Failed(i)
           THEN i = Last /\ pc = "exited" /\ exitcode = 1 /\ ~IndexingRerun
           ELSE i = Last \/ calls[i + 1].cmd = "dials.index"
  /\ \A i \in CallsOf("dials.index") : IndexStage(i) <= 2
  /\ C3_SecondFailure

\* the second indexing stage has failed after the stricter spot finding, and
\* both reflection files are there
C3_Witness ==
  /\ StageFailed(2)
  /\ \E i \in CallsOf("dials.find_spots") : calls[i].opt = "sigma_strong=15"
  /\ {"all_spots.pickle", "strong.pickle"} \subseteq files
  /\ pc = "exited"

----------------------------------------------------------------------------
(* C4 *)

\* C4: when the first create_profile_model fails, dials.refine is run once;
\* a failed refinement ends the run with exit code 1 and no retry; after a
\* successful one create_profile_model is retried once, and when the retry
\* fails the run exits 1 without report, predict, intensity check or bravais
\* refinement.
C4_ProfileEscalation ==
  /\ Cardinality(CallsOf("dials.refine")) <= 1
  /\ Cardinality(CallsOf("dials.create_profile_model")) <= 2
  /\ \A i \in FirstProfileModel :
       IF Failed(i)
         THEN \/ i = Last /\ pc = "refine"
              \/ i < Last /\ calls[i + 1].cmd = "dials.refine"
         ELSE ~Invoked("dials.refine") /\ SecondProfileModel = {}
  /\ \A i \in CallsOf("dials.refine") :
       IF Failed(i)
         THEN /\ i = Last /\ pc = "exited" /\ exitcode = 1
              /\ SecondProfileModel = {}
         ELSE \/ i = Last /\ pc = "create_profile_model"
              \/ i < Last /\ calls[i + 1].cmd = "dials.create_profile_model"
  /\ \A i \in SecondProfileModel :
       Failed(i) =>
         /\ i = Last /\ pc = "exited" /\ exitcode = 1
         /\ \A c \in {"dials.report", "dials.predict", "xia2.overload", "gnuplot",
                      "dials.refine_bravais_settings"} : ~Invoked(c)

\* the retry after a successful refinement has failed
C4_Witness ==
  /\ \E i \in CallsOf("dials.refine") : ~Failed(i)
  /\ \E i \in SecondProfileModel : Failed(i)
  /\ pc = "exited"

----------------------------------------------------------------------------
(* C5 *)

\* the invocations of a run in which every stage is entered once
AllStagesOnce ==
  <<"libtbx.show_number_of_processors", "dials.import", "dials.find_spots",
    "dials.index", "dials.create_profile_model", "dials.report", "dials.predict",
    "xia2.overload", "gnuplot", "dials.refine_bravais_settings">>

\* C5: a run on image paths in which every tool exits 0, and in which import,
\* indexing and the profile model succeeded at once (the report was reached),
\* ends with exit code 0 after one invocation of every stage, in order.
C5_AsStated ==
  ( /\ args = "paths"
    /\ pc = "exited"
    /\ \A i \in 1..Last : ~Failed(i)
    /\ Invoked("dials.report") )
  => (exitcode = 0 /\ Cmds = AllStagesOnce)

----------------------------------------------------------------------------
(* C6 *)

\* the invocations that are one of the fatal failures of C6
FatalCalls ==
  {i \in 1..Last :
     \/ /\ calls[i].cmd \in {"libtbx.show_number_of_processors", "dials.import",
                             "dials.find_spots", "dials.refine", "dials.report",
                             "dials.refine_bravais_settings"}
        /\ Failed(i)
     \/ calls[i].cmd = "dials.import" /\ ~Failed(i) /\ "datablock.json" \notin files}
  \cup {i \in FailedIndexing(2) : calls[i].opt = "indexing.method=fft1d"}
  \cup {i \in SecondProfileModel : Failed(i)}

\* C6: a failure of import (also a successful dials.import that leaves no
\* datablock.json), of the processor probe, of spot finding, of refinement,
\* of the report or of the bravais refinement, an unresolved indexing and an
\* unresolved profile model each end the process with exit code 1, and the
\* failed invocation is the last one of the run.
C6_FatalStages ==
  \A i \in FatalCalls : i = Last /\ pc = "exited" /\ exitcode = 1

\* the bravais refinement, the last stage, has failed
C6_Witness ==
  /\ pc = "exited" /\ exitcode = 1 /\ stopped = "_refine_bravais"
  /\ calls[Last].cmd = "dials.refine_bravais_settings" /\ Failed(Last)

----------------------------------------------------------------------------
(* C7 *)

\* what C7 says of a failed report
C7_ReportFatal ==
  \A i \in CallsOf("dials.report") :
    Failed(i) => /\ i = Last /\ pc = "exited" /\ exitcode = 1
                 /\ ~Invoked("dials.predict")

\* C7 as stated: a run in which dials.predict exited nonzero does not end
\* without the intensity check and the bravais refinement having been invoked.
C7_AsStated ==
  /\ (pc = "exited" /\ \E i \in CallsOf("dials.predict") : Failed(i)) =>
       (Invoked("xia2.overload") /\ Invoked("dials.refine_bravais_settings"))
  /\ C7_ReportFatal

\* C7, amended: whatever dials.predict exits with, the intensity check is
\* invoked next, and the bravais refinement is invoked unless the intensity
\* check itself ends the run (xia2.overload exits nonzero, or the check
\* faults); a nonzero exit of dials.report ends the run with exit code 1
\* before predict is invoked.
C7_PredictNonFatal ==
  /\ \A i \in CallsOf("dials.predict") :
       IF i = Last THEN pc = "check_intensities"
                   ELSE calls[i + 1].cmd = "xia2.overload"
  /\ ( /\ Invoked("dials.predict")
       /\ pc = "exited"
       /\ ~Invoked("dials.refine_bravais_settings") )
     => stopped \in {"_check_intensities", "KeyError", "ValueError", "IndexError"}
  /\ C7_ReportFatal

\* dials.predict exited nonzero and the run still ended with exit code 0,
\* after the bravais refinement
C7_Witness ==
  /\ \E i \in CallsOf("dials.predict") : Failed(i)
  /\ Invoked("xia2.overload")
  /\ Invoked("dials.refine_bravais_settings")
  /\ pc = "exited" /\ exitcode = 0

----------------------------------------------------------------------------
(* C8 *)

\* run() is inside _check_intensities
InIntensityCheck ==
  pc \in {"check_intensities", "rescale", "drop_zero", "plot_intensities"}

\* C8: when the intensity check starts, and whenever it has been started, the
\* scan metadata are set and a create_profile_model invocation has succeeded.
C8_MetadataBeforeIntensities ==
  (InIntensityCheck \/ Invoked("xia2.overload")) =>
    /\ meta.populated
    /\ \E i \in CallsOf("dials.create_profile_model") : ~Failed(i)

\* the intensity check is about to start after the first create_profile_model
\* had failed: the metadata come from the retry
C8_Witness ==
  /\ pc = "check_intensities"
  /\ \E i \in FirstProfileModel : Failed(i)
  /\ meta.populated

----------------------------------------------------------------------------
(* C9 and C10 *)

\* the buckets of overload.json that hold a count, and those of them that
\* are rescaled to bucket k
Counted == {x \in 0..(Len(overload.bins) - 1) : overload.bins[x + 1] > 0}
CurrentScale == Scale(overload.scale_factor, meta.mosaicity)
RescaledTo(k) == {x \in Counted : Rescaled(x, CurrentScale) = k}

\* C9: the histogram handed to _plot_intensities, and used by the checks
\* after it, has no bucket 0.
C9_NoZeroBucket == pc = "plot_intensities" => 0 \notin DOMAIN hist

\* a bucket other than bucket 0 was rescaled to 0 and dropped, and buckets
\* are left
C9_Witness ==
  /\ pc = "plot_intensities"
  /\ DOMAIN hist # {}
  /\ \E x \in Counted : x # 0 /\ Rescaled(x, CurrentScale) = 0

\* C10: after the rescaling, before bucket 0 is dropped, every bucket holds
\* the sum of the counts of the original buckets rescaled to it, and the
\* total count is the total count of the original buckets.
C10_CollisionsSum ==
  pc = "drop_zero" =>
    /\ DOMAIN hist = {Rescaled(x, CurrentScale) : x \in Counted}
    /\ \A k \in DOMAIN hist :
         hist[k] = SumValues([x \in RescaledTo(k) |-> overload.bins[x + 1]])
    /\ SumValues(hist) = SumValues([x \in Counted |-> overload.bins[x + 1]])
    /\ SumValues(hist) = histcount

\* two original buckets were rescaled to the same bucket, which is not bucket 0
C10_Witness ==
  /\ pc = "drop_zero"
  /\ \E k \in DOMAIN hist : k # 0 /\ Cardinality(RescaledTo(k)) >= 2

----------------------------------------------------------------------------
(* C11 *)

\* the checks of lines 108-116 run in this step: the plot raised nothing and
\* the histogram has a strongest bucket
ChecksRun == pc = "plot_intensities" /\ pc' = "refine_bravais"

\* C11: the step that runs the checks after the plot logs the saturation
\* warning exactly when the strongest rescaled bucket is above 100, in no
\* other step is the warning logged, and the step that logs it goes on to
\* the Bravais settings instead of ending the run.
C11_SaturationWarning ==
  [][ /\ ChecksRun =>
           (("saturation_warning" \in log') <=> (MaxKey(hist) > 100))
      /\ ("saturation_warning" \in log' /\ "saturation_warning" \notin log) =>
           ChecksRun
    ]_vars

\* the warning was logged and the run returned with exit code 0 after the
\* Bravais settings
C11_Witness ==
  /\ "saturation_warning" \in log
  /\ Invoked("dials.refine_bravais_settings")
  /\ pc = "exited"
  /\ exitcode = 0

----------------------------------------------------------------------------
(* C12 *)

\* the place among the logged lines of line i of gnuplot's output: blank
\* lines are not logged
LoggedAt(i) == Cardinality({j \in 1..i : ~IsBlank(stdout[j])})

\* line i of gnuplot's output was logged
WasLogged(i) == ~IsBlank(stdout[i]) /\ LoggedAt(i) <= Len(plot)

\* C12: a line of gnuplot's output that comes after a line without markers,
\* be that a line of other characters or a fully blank line, is logged as
\* gnuplot wrote it, with its own markers only.
C12_AsStated ==
  \A i \in 2..Len(stdout) :
    (Stars(stdout[i - 1]) = {} /\ WasLogged(i)) => plot[LoggedAt(i)] = stdout[i]

----------------------------------------------------------------------------
(* C13 *)

\* the stage function that runs command cmd
StageOf(cmd) ==
  CASE cmd = "libtbx.show_number_of_processors" -> "_count_processors"
    [] cmd = "dials.import" -> "_import"
    [] cmd = "dials.find_spots" -> "_find_spots"
    [] cmd = "dials.index" -> "_index"
    [] cmd = "dials.refine" -> "_refine"
    [] cmd = "dials.create_profile_model" -> "_create_profile_model"
    [] cmd = "dials.report" -> "_report"
    [] cmd = "dials.predict" -> "_predict"
    [] cmd \in {"xia2.overload", "stty", "gnuplot"} -> "_check_intensities"
    [] cmd = "dials.refine_bravais_settings" -> "_refine_bravais"

\* invocations i and i+1 were issued by one call of one stage function: run()
\* never calls the same stage function twice in a row
SameStageCall(i) == StageOf(calls[i].cmd) = StageOf(calls[i + 1].cmd)

\* C13 as stated: no call of a stage function issues a second invocation.
C13_AsStated == \A i \in 1..(Last - 1) : ~SameStageCall(i)

\* C13: a call of a stage function issues one invocation, but for _index,
\* which issues up to three, each after a failed one, and _check_intensities,
\* which after a successful xia2.overload goes on to gnuplot, with `stty size`
\* before it where standard output is a terminal.
C13_InvocationsPerStage ==
  \A i \in 1..(Last - 1) :
    SameStageCall(i) =>
      \/ /\ calls[i].cmd = "dials.index"
         /\ Failed(i)
         /\ i >= 3 => ~(calls[i - 1].cmd = "dials.index" /\ calls[i - 2].cmd = "dials.index")
      \/ /\ calls[i].cmd = "xia2.overload"
         /\ ~Failed(i)
         /\ calls[i + 1].cmd \in {"stty", "gnuplot"}
      \/ /\ calls[i].cmd = "stty"
         /\ calls[i + 1].cmd = "gnuplot"

\* _index issued three invocations, and _check_intensities issued three
C13_Witness ==
  /\ \E i \in 1..(Last - 2) : \A j \in i..(i + 2) : calls[j].cmd = "dials.index"
  /\ \E i \in 1..(Last - 2) :
       /\ calls[i].cmd = "xia2.overload"
       /\ calls[i + 1].cmd = "stty"
       /\ calls[i + 2].cmd = "gnuplot"

----------------------------------------------------------------------------
(* C14 *)

\* C14: a run that ends after an invocation of dials.index was ended by
\* run(), which gave up on the value _index returned (line 339), and never by
\* _index itself.
C14_AsStated ==
  (pc = "exited" /\ Last >= 1 /\ calls[Last].cmd = "dials.index") =>
    stopped = "run_indexing"

----------------------------------------------------------------------------
(* C15 *)

\* the last line up to line i of gnuplot's output that has no markers at all,
\* 0 when there is none
LastReset(i) ==
  LET none == {j \in 1..i : Stars(stdout[j]) = {}}
  IN  IF none = {} THEN 0 ELSE CHOOSE j \in none : \A k \in none : k <= j

\* the marker columns of all lines after that line, up to line i
MarkedSinceReset(i) == UNION {Stars(stdout[j]) : j \in (LastReset(i) + 1)..i}

\* C15: every logged line carries markers exactly on the columns that held
\* a marker in some line since the last line without any markers.
C15_AsStated ==
  \A i \in 1..Len(stdout) :
    WasLogged(i) => Stars(plot[LoggedAt(i)]) = MarkedSinceReset(i)

----------------------------------------------------------------------------
(* C16 *)

\* the place of a command in the order of run(): spot finding and indexing
\* alternate inside one phase, and so do the profile model and the refinement
Phase(cmd) ==
  CASE cmd = "libtbx.show_number_of_processors" -> 1
    [] cmd = "dials.import" -> 2
    [] cmd \in {"dials.find_spots", "dials.index"} -> 3
    [] cmd \in {"dials.create_profile_model", "dials.refine"} -> 4
    [] cmd = "dials.report" -> 5
    [] cmd = "dials.predict" -> 6
    [] cmd \in {"xia2.overload", "stty", "gnuplot"} -> 7
    [] cmd = "dials.refine_bravais_settings" -> 8

\* the numbers of invocations C16 allows in one run
InvocationLimits ==
  /\ Cardinality(CallsOf("dials.find_spots")) <= 2
  /\ Cardinality(CallsOf("dials.index")) <= 6
  /\ Cardinality(CallsOf("dials.refine")) <= 1
  /\ Cardinality(CallsOf("dials.create_profile_model")) <= 2

\* no invocation belongs to a phase before the phase of the invocation before
NeverBack == \A i \in 1..(Last - 1) : Phase(calls[i].cmd) <= Phase(calls[i + 1].cmd)

\* C16: every run ends, it never issues more than 2 dials.find_spots, 6
\* dials.index, 1 dials.refine and 2 dials.create_profile_model invocations,
\* and it never goes back to a phase it has left.
C16_Termination ==
  /\ [](InvocationLimits /\ NeverBack)
  /\ <>(pc = "exited")

\* a run that used up all the invocations allowed has ended
C16_Witness ==
  /\ pc = "exited"
  /\ Cardinality(CallsOf("dials.find_spots")) = 2
  /\ Cardinality(CallsOf("dials.index")) = 6
  /\ Cardinality(CallsOf("dials.refine")) = 1
  /\ Cardinality(CallsOf("dials.create_profile_model")) = 2

----------------------------------------------------------------------------
(* C17 *)

\* xia2.overload was run and exited 0
OverloadSucceeded == \E i \in CallsOf("xia2.overload") : ~Failed(i)

\* C17: a run in which xia2.overload succeeded does not end before
\* dials.refine_bravais_settings is run, whatever histogram overload.json holds.
C17_AsStated ==
  (pc = "exited" /\ OverloadSucceeded) => Invoked("dials.refine_bravais_settings")

----------------------------------------------------------------------------
(* C18 *)

\* dials.create_profile_model was run and exited 0
ProfileModelSucceeded == \E i \in CallsOf("dials.create_profile_model") : ~Failed(i)

\* the run has ended with exit code 1 after the profile model was made
EndedBadlyAfterProfileModel == pc = "exited" /\ exitcode = 1 /\ ProfileModelSucceeded

\* the run ended at the sys.exit(1) of stage function site, on the nonzero
\* exit of cmd
EndedOnFailureOf(cmd, site) ==
  stopped = site /\ calls[Last].cmd = cmd /\ Failed(Last)

\* the run ended with exception exc raised after the invocation of cmd
EndedOnFaultAfter(cmd, exc) == stopped = exc /\ calls[Last].cmd = cmd

\* C18 as stated: after a successful profile model a run ends with exit
\* code 1 only on the failure of dials.report or of
\* dials.refine_bravais_settings.
C18_AsStated ==
  EndedBadlyAfterProfileModel =>
    \/ EndedOnFailureOf("dials.report", "_report")
    \/ EndedOnFailureOf("dials.refine_bravais_settings", "_refine_bravais")

\* C18: after a successful profile model a run ends with exit code 1 on the
\* failure of dials.report, of xia2.overload or of
\* dials.refine_bravais_settings, or on an exception raised in the intensity
\* check or on the output of dials.refine_bravais_settings, and on nothing
\* else; a failed xia2.overload always ends the run at once.
C18_FatalAfterProfileModel ==
  /\ EndedBadlyAfterProfileModel =>
       \/ EndedOnFailureOf("dials.report", "_report")
       \/ EndedOnFailureOf("xia2.overload", "_check_intensities")
       \/ EndedOnFailureOf("dials.refine_bravais_settings", "_refine_bravais")
       \/ EndedOnFaultAfter("xia2.overload", "KeyError") /\ ~Failed(Last)
       \/ EndedOnFaultAfter("gnuplot", "ValueError")
       \/ EndedOnFaultAfter("gnuplot", "IndexError") /\ ~Failed(Last)
       \/ EndedOnFaultAfter("dials.refine_bravais_settings", "AttributeError") /\ ~Failed(Last)
  /\ \A i \in CallsOf("xia2.overload") :
       Failed(i) => i = Last /\ pc = "exited" /\ exitcode = 1

\* xia2.overload failed after a successful profile model and a failed
\* dials.predict, and the run has ended with exit code 1
C18_Witness ==
  /\ EndedBadlyAfterProfileModel
  /\ EndedOnFailureOf("xia2.overload", "_check_intensities")
  /\ \E i \in CallsOf("dials.predict") : Failed(i)

----------------------------------------------------------------------------
(* C19 *)

\* C19: when gnuplot has failed, it was run once only, no line of a plot was
\* logged, the check of the strongest bucket has logged its message, and the
\* run has not ended before dials.refine_bravais_settings.
C19_AsStated ==
  \A i \in CallsOf("gnuplot") :
    Failed(i) =>
      /\ CallsOf("gnuplot") = {i}
      /\ plot = <<>>
      /\ "gnuplot_error" \in log
      /\ log \cap {"saturation_warning", "strongest_pixel"} # {}
      /\ pc = "exited" => Invoked("dials.refine_bravais_settings")

----------------------------------------------------------------------------
(* C20 *)

\* C20: the bar filling raises nothing, and every non-blank line of gnuplot's
\* output is logged with the length it had.
C20_AsStated ==
  /\ stopped # "IndexError"
  /\ \A i \in 1..Len(stdout) :
       ~IsBlank(stdout[i]) =>
         WasLogged(i) /\ Len(plot[LoggedAt(i)]) = Len(stdout[i])

====
